---- MODULE Spec2Model ----
(***************************************************************************)
(* A model of the Eppo flag enum generator (generate-eppo-enums.ts): the   *)
(* command line entry, the API fetch, and generateEnumsFromConfig with its *)
(* helpers toEnumKey, convertVariationValue and formatValueForTypeScript.  *)
(*                                                                         *)
(* JavaScript strings are sequences of one-character strings.  JavaScript  *)
(* values are records [t, n, s]: t is the runtime type tag, n the number   *)
(* (or 0/1 for a boolean), s the characters of a string or, for an object  *)
(* or array, its canonical JSON text (what JSON.stringify(v, null, 0)      *)
(* returns).                                                               *)
(***************************************************************************)
EXTENDS Integers, Sequences, FiniteSets, TLC

-----------------------------------------------------------------------------
(* Bounds of the model *)

\* flags in one file config of the name-collision inputs
MaxFlags == 3
\* variations in one variation collection of the value inputs
MaxVars == 2
\* characters in an enumerated raw string of the coercion inputs
MaxLen == 2
\* chunks the response body arrives in
MaxChunks == 3

-----------------------------------------------------------------------------
(* Characters and strings *)

Lowers == <<"a","b","c","d","e","f","g","h","i","j","k","l","m",
            "n","o","p","q","r","s","t","u","v","w","x","y","z">>
Uppers == <<"A","B","C","D","E","F","G","H","I","J","K","L","M",
            "N","O","P","Q","R","S","T","U","V","W","X","Y","Z">>
Digits == <<"0","1","2","3","4","5","6","7","8","9">>

Range(f) == { f[i] : i \in DOMAIN f }

IndexOf(seq, c) == CHOOSE i \in DOMAIN seq : seq[i] = c

IsLower(c) == c \in Range(Lowers)
IsUpper(c) == c \in Range(Uppers)
IsDigit(c) == c \in Range(Digits)
DigitVal(c) == IndexOf(Digits, c) - 1

\* String.prototype.toUpperCase / toLowerCase, character by character
UpperChar(c) == IF IsLower(c) THEN Uppers[IndexOf(Lowers, c)] ELSE c
LowerChar(c) == IF IsUpper(c) THEN Lowers[IndexOf(Uppers, c)] ELSE c
ToUpperCase(s) == [i \in DOMAIN s |-> UpperChar(s[i])]
ToLowerCase(s) == [i \in DOMAIN s |-> LowerChar(s[i])]

\* Number.prototype.toString for an integer
RECURSIVE NatToStr(_)
NatToStr(n) == IF n < 10 THEN <<Digits[n + 1]>>
               ELSE NatToStr(n \div 10) \o <<Digits[(n % 10) + 1]>>
IntToStr(n) == IF n < 0 THEN <<"-">> \o NatToStr(-n) ELSE NatToStr(n)

\* the characters StrWhiteSpaceChar / JSON whitespace of the modelled alphabet
IsSpace(c) == c \in {" ", "\n", "\r", "\t"}

RECURSIVE TrimLeft(_)
TrimLeft(s) == IF s # <<>> /\ IsSpace(Head(s)) THEN TrimLeft(Tail(s)) ELSE s
RECURSIVE TrimRight(_)
TrimRight(s) == IF s # <<>> /\ IsSpace(s[Len(s)])
                THEN TrimRight(SubSeq(s, 1, Len(s) - 1)) ELSE s
Trim(s) == TrimRight(TrimLeft(s))

StrTrue == <<"t","r","u","e">>
StrFalse == <<"f","a","l","s","e">>
StrNull == <<"n","u","l","l">>

-----------------------------------------------------------------------------
(* JavaScript values *)

Null == [t |-> "null", n |-> 0, s |-> <<>>]
Undefined == [t |-> "undefined", n |-> 0, s |-> <<>>]
Bool(b) == [t |-> "boolean", n |-> IF b THEN 1 ELSE 0, s |-> <<>>]
Num(k) == [t |-> "number", n |-> k, s |-> <<>>]
Str(chars) == [t |-> "string", n |-> 0, s |-> chars]
\* an object or array, carried as its canonical JSON text
Obj(text) == [t |-> "object", n |-> 0, s |-> text]

\* the typeof operator (typeof null is "object")
TypeOf(v) == IF v.t = "null" THEN "object" ELSE v.t

IsNullish(v) == v.t \in {"null", "undefined"}

\* The structured JSON documents of the model, in canonical text:
\* {}, [], [1] and {"a":1}.
StructuredTexts ==
    { <<"{","}">>, <<"[","]">>, <<"[","1","]">>,
      <<"{","\"","a","\"",":","1","}">> }

IsArrayText(text) == text # <<>> /\ text[1] = "["

\* String(value).  An array joins its elements with "," (for the flat
\* arrays of StructuredTexts: the text between the brackets); any other
\* object is "[object Object]".
ObjectObject == <<"[","o","b","j","e","c","t"," ","O","b","j","e","c","t","]">>
JsString(v) ==
    CASE v.t = "string" -> v.s
      [] v.t = "number" -> IntToStr(v.n)
      [] v.t = "boolean" -> IF v.n = 1 THEN StrTrue ELSE StrFalse
      [] v.t = "null" -> StrNull
      [] v.t = "undefined" -> <<"u","n","d","e","f","i","n","e","d">>
      [] v.t = "object" -> IF IsArrayText(v.s) THEN SubSeq(v.s, 2, Len(v.s) - 1)
                           ELSE ObjectObject

\* Boolean(value) for a value that is neither a boolean nor a string
\* (line 104): a number is true unless it is 0, an object is true.
JsBoolean(v) ==
    CASE v.t = "number" -> v.n # 0
      [] v.t = "string" -> v.s # <<>>
      [] v.t = "boolean" -> v.n = 1
      [] v.t = "object" -> TRUE
      [] OTHER -> FALSE

\* the value of a run of decimal digits
RECURSIVE DigitsVal(_)
DigitsVal(s) == IF s = <<>> THEN 0
                ELSE 10 * DigitsVal(SubSeq(s, 1, Len(s) - 1)) + DigitVal(s[Len(s)])

\* the longest prefix of s made of digits
RECURSIVE DigitPrefix(_)
DigitPrefix(s) == IF s # <<>> /\ IsDigit(Head(s))
                  THEN <<Head(s)>> \o DigitPrefix(Tail(s)) ELSE <<>>

\* parseFloat(string): leading white space is skipped, then the longest prefix
\* that is a decimal literal is read; NaN when there is none.  The model's
\* strings hold no "." and no exponent, so the literal is [+-]?[0-9]+.
ParseFloat(s) ==
    LET t == TrimLeft(s)
        signed == t # <<>> /\ t[1] \in {"+", "-"}
        body == IF signed THEN Tail(t) ELSE t
        ds == DigitPrefix(body)
    IN IF ds = <<>> THEN [nan |-> TRUE, n |-> 0]
       ELSE [nan |-> FALSE,
             n |-> IF signed /\ t[1] = "-" THEN 0 - DigitsVal(ds) ELSE DigitsVal(ds)]

\* a JSON number of the model: -?(0|[1-9][0-9]*)
IsJsonInt(t) ==
    LET body == IF t # <<>> /\ t[1] = "-" THEN Tail(t) ELSE t
    IN /\ body # <<>>
       /\ \A i \in DOMAIN body : IsDigit(body[i])
       /\ (Len(body) > 1 => body[1] # "0")

JsonEscapes == {"\"", "\\", "/", "n", "r", "t"}
JsonEscaped(c) == CASE c = "n" -> "\n" [] c = "r" -> "\r" [] c = "t" -> "\t"
                    [] OTHER -> c

\* the characters of a JSON string literal's inside, decoded; a raw double
\* quote, a raw control character or a bad escape is a syntax error
RECURSIVE JsonUnescape(_)
JsonUnescape(s) ==
    IF s = <<>> THEN [ok |-> TRUE, s |-> <<>>]
    ELSE IF s[1] = "\\"
         THEN IF Len(s) >= 2 /\ s[2] \in JsonEscapes
              THEN LET r == JsonUnescape(SubSeq(s, 3, Len(s)))
                   IN [ok |-> r.ok, s |-> <<JsonEscaped(s[2])>> \o r.s]
              ELSE [ok |-> FALSE, s |-> <<>>]
         ELSE IF s[1] \in {"\"", "\n", "\r", "\t"}
              THEN [ok |-> FALSE, s |-> <<>>]
              ELSE LET r == JsonUnescape(Tail(s))
                   IN [ok |-> r.ok, s |-> <<s[1]>> \o r.s]

\* JSON.parse(text): [ok, v]; ok = FALSE is the SyntaxError it throws
JsonParse(text) ==
    LET t == Trim(text)
        fail == [ok |-> FALSE, v |-> Null]
    IN CASE t = StrTrue -> [ok |-> TRUE, v |-> Bool(TRUE)]
         [] t = StrFalse -> [ok |-> TRUE, v |-> Bool(FALSE)]
         [] t = StrNull -> [ok |-> TRUE, v |-> Null]
         [] IsJsonInt(t) ->
              [ok |-> TRUE,
               v |-> Num(IF t[1] = "-" THEN 0 - DigitsVal(Tail(t)) ELSE DigitsVal(t))]
         [] Len(t) >= 2 /\ t[1] = "\"" /\ t[Len(t)] = "\"" ->
              LET r == JsonUnescape(SubSeq(t, 2, Len(t) - 1))
              IN IF r.ok THEN [ok |-> TRUE, v |-> Str(r.s)] ELSE fail
         [] t \in StructuredTexts -> [ok |-> TRUE, v |-> Obj(t)]
         [] OTHER -> fail

\* the inside of the literal JSON.stringify writes for a string
RECURSIVE JsonEscape(_)
JsonEscape(s) ==
    IF s = <<>> THEN <<>>
    ELSE (CASE s[1] = "\"" -> <<"\\", "\"">>
            [] s[1] = "\\" -> <<"\\", "\\">>
            [] s[1] = "\n" -> <<"\\", "n">>
            [] s[1] = "\r" -> <<"\\", "r">>
            [] s[1] = "\t" -> <<"\\", "t">>
            [] OTHER -> <<s[1]>>) \o JsonEscape(Tail(s))

\* JSON.stringify(value, null, 0) of a value that is not undefined
JsonStringify(v) ==
    CASE v.t = "string" -> <<"\"">> \o JsonEscape(v.s) \o <<"\"">>
      [] v.t = "number" -> IntToStr(v.n)
      [] v.t = "boolean" -> IF v.n = 1 THEN StrTrue ELSE StrFalse
      [] v.t = "object" -> v.s
      [] OTHER -> StrNull

-----------------------------------------------------------------------------
(* toEnumKey *)

IsWordChar(c) == IsLower(c) \/ IsUpper(c) \/ IsDigit(c) \/ c = "_"

\* .replace(/[^a-zA-Z0-9_]/g, '_')
ReplaceNonWord(s) == [i \in DOMAIN s |-> IF IsWordChar(s[i]) THEN s[i] ELSE "_"]

\* .replace(/_+/g, '_')
RECURSIVE CollapseUnderscores(_)
CollapseUnderscores(s) ==
    IF Len(s) < 2 THEN s
    ELSE IF s[1] = "_" /\ s[2] = "_" THEN CollapseUnderscores(Tail(s))
         ELSE <<s[1]>> \o CollapseUnderscores(Tail(s))

\* .replace(/^_|_$/g, ''): one leading and one trailing underscore go
StripUnderscores(s) ==
    LET a == IF s # <<>> /\ s[1] = "_" THEN Tail(s) ELSE s
    IN IF a # <<>> /\ a[Len(a)] = "_" THEN SubSeq(a, 1, Len(a) - 1) ELSE a

toEnumKey(flagName) ==
    ToUpperCase(StripUnderscores(CollapseUnderscores(ReplaceNonWord(flagName))))

-----------------------------------------------------------------------------
(* convertVariationValue *)

TBOOLEAN == <<"B","O","O","L","E","A","N">>
TNUMBER == <<"N","U","M","B","E","R">>
TNUMERIC == <<"N","U","M","E","R","I","C">>
TJSON == <<"J","S","O","N">>
TSTRING == <<"S","T","R","I","N","G">>
TUNKNOWN == <<"U","N","K","N","O","W","N">>

\* a slip of convertVariationValue: the default branch writes the value as
\* JSON text in place of String(value)
convertVariationValueQuoting(value, variationType) ==
    IF IsNullish(value) THEN Null
    ELSE CASE variationType = TBOOLEAN ->
                IF TypeOf(value) = "boolean" THEN value
                ELSE IF TypeOf(value) = "string"
                     THEN Bool(ToLowerCase(value.s) = StrTrue)
                     ELSE Bool(JsBoolean(value))
           [] variationType \in {TNUMBER, TNUMERIC} ->
                IF TypeOf(value) = "number" THEN value
                ELSE IF TypeOf(value) = "string"
                     THEN LET num == ParseFloat(value.s)
                          IN IF num.nan THEN value ELSE Num(num.n)
                     ELSE value
           [] variationType = TJSON ->
                IF TypeOf(value) = "object" THEN value
                ELSE IF TypeOf(value) = "string"
                     THEN LET r == JsonParse(value.s)
                          IN IF r.ok THEN r.v ELSE value
                     ELSE value
           [] OTHER -> Str(JsonStringify(value))

\* a slip of convertVariationValue: a BOOLEAN string that is neither "true"
\* nor "false" is left as it is
convertVariationValueLax(value, variationType) ==
    IF IsNullish(value) THEN Null
    ELSE CASE variationType = TBOOLEAN ->
                IF TypeOf(value) = "boolean" THEN value
                ELSE IF TypeOf(value) = "string"
                     THEN IF ToLowerCase(value.s) \in {StrTrue, StrFalse}
                          THEN Bool(ToLowerCase(value.s) = StrTrue)
                          ELSE value
                     ELSE Bool(JsBoolean(value))
           [] variationType \in {TNUMBER, TNUMERIC} ->
                IF TypeOf(value) = "number" THEN value
                ELSE IF TypeOf(value) = "string"
                     THEN LET num == ParseFloat(value.s)
                          IN IF num.nan THEN value ELSE Num(num.n)
                     ELSE value
           [] variationType = TJSON ->
                IF TypeOf(value) = "object" THEN value
                ELSE IF TypeOf(value) = "string"
                     THEN LET r == JsonParse(value.s)
                          IN IF r.ok THEN r.v ELSE value
                     ELSE value
           [] OTHER -> Str(JsString(value))

convertVariationValue(value, variationType) ==
    IF IsNullish(value) THEN Null
    ELSE CASE variationType = TBOOLEAN ->
                IF TypeOf(value) = "boolean" THEN value
                ELSE IF TypeOf(value) = "string"
                     THEN Bool(ToLowerCase(value.s) = StrTrue)
                     ELSE Bool(JsBoolean(value))
           [] variationType \in {TNUMBER, TNUMERIC} ->
                IF TypeOf(value) = "number" THEN value
                ELSE IF TypeOf(value) = "string"
                     THEN LET num == ParseFloat(value.s)
                          IN IF num.nan THEN value ELSE Num(num.n)
                     ELSE value
           [] variationType = TJSON ->
                IF TypeOf(value) = "object" THEN value
                ELSE IF TypeOf(value) = "string"
                     THEN LET r == JsonParse(value.s)
                          IN IF r.ok THEN r.v ELSE value
                     ELSE value
           [] OTHER -> Str(JsString(value))

-----------------------------------------------------------------------------
(* formatValueForTypeScript *)

\* the five replacements of lines 157-161, in their order: each is applied
\* to the whole result of the one before
RECURSIVE ReplaceChar(_, _, _)
ReplaceChar(s, c, by) ==
    IF s = <<>> THEN <<>>
    ELSE (IF s[1] = c THEN by ELSE <<s[1]>>) \o ReplaceChar(Tail(s), c, by)

\* a slip of EscapeForTypeScript: the quotes are escaped before the
\* backslashes, so the backslash of an escaped quote is escaped again
EscapeQuotesFirst(s) ==
    LET a == ReplaceChar(s, "\"", <<"\\", "\"">>)
        b == ReplaceChar(a, "\\", <<"\\", "\\">>)
        c == ReplaceChar(b, "\n", <<"\\", "n">>)
        d == ReplaceChar(c, "\r", <<"\\", "r">>)
    IN ReplaceChar(d, "\t", <<"\\", "t">>)

EscapeForTypeScript(s) ==
    LET a == ReplaceChar(s, "\\", <<"\\", "\\">>)
        b == ReplaceChar(a, "\"", <<"\\", "\"">>)
        c == ReplaceChar(b, "\n", <<"\\", "n">>)
        d == ReplaceChar(c, "\r", <<"\\", "r">>)
    IN ReplaceChar(d, "\t", <<"\\", "t">>)

formatValueForTypeScript(value) ==
    IF IsNullish(value) THEN StrNull
    ELSE CASE TypeOf(value) = "boolean" -> IF value.n = 1 THEN StrTrue ELSE StrFalse
           [] TypeOf(value) = "number" -> IntToStr(value.n)
           [] TypeOf(value) = "object" -> JsonStringify(value)
           [] OTHER -> <<"\"">> \o EscapeForTypeScript(JsString(value)) \o <<"\"">>

-----------------------------------------------------------------------------
(* Raw configurations *)

\* One variation of a collection: name is its property name when the
\* collection is a mapping, key its variant_key (API shape) or key (file
\* shape), a string or undefined.
Variation(name, key, value) == [name |-> name, key |-> key, value |-> value]
ArrayVariation(key, value) == Variation(<<>>, key, value)

\* A variation collection: absent, an array, or a mapping in textual order.
NoVariations == [form |-> "absent", items |-> <<>>]
VarArray(items) == [form |-> "array", items |-> items]
VarMap(items) == [form |-> "map", items |-> items]

\* One flag record of an array config: key is a string value or undefined;
\* variation_type is the declared type, <<>> when it is absent or empty
\* (both falsy).
RawFlag(key, vtype, variations) ==
    [name |-> <<>>, key |-> key, variation_type |-> vtype, variations |-> variations]

\* One property of a file config's flags mapping: name -> {variationType,
\* variations}
FileFlag(name, vtype, variations) ==
    [name |-> name, key |-> Str(name), variation_type |-> vtype,
     variations |-> variations]

\* A parsed config: an array of flag records ("array"), an object whose
\* flags property maps names to flag data in textual order ("file"), or an
\* object without a truthy flags property ("other").
ArrayConfig(fs) == [shape |-> "array", flags |-> fs]
FileConfig(fs) == [shape |-> "file", flags |-> fs]
OtherConfig == [shape |-> "other", flags |-> <<>>]
NoConfig == [shape |-> "none", flags |-> <<>>]

\* A property name that is a canonical array index ("0", "1", "10", ...)
IsIndexName(name) == IsJsonInt(name) /\ name[1] # "-"

\* Object.entries / Object.values order of a mapping whose properties are
\* items (records with a field name): the array-index names in ascending
\* numeric order, then the other names in insertion order.
OwnPropertyOrder(items) ==
    SortSeq(SelectSeq(items, LAMBDA it : IsIndexName(it.name)),
            LAMBDA x, y : DigitsVal(x.name) < DigitsVal(y.name))
    \o SelectSeq(items, LAMBDA it : ~IsIndexName(it.name))

-----------------------------------------------------------------------------
(* generateEnumsFromConfig, its steps as operators *)

\* Object.values(flagData.variations).map(...) of lines 229-234
NormalizeVariations(variations) ==
    LET vs == IF variations.form = "map" THEN OwnPropertyOrder(variations.items)
              ELSE variations.items
    IN VarArray([i \in DOMAIN vs |-> ArrayVariation(vs[i].key, vs[i].value)])

\* a slip of NormalizeConfig: the length check of lines 240-242 is missing
NormalizeConfigAllowEmpty(cfg) ==
    LET fail == [ok |-> FALSE, flagsData |-> <<>>]
    IN CASE cfg.shape = "array" -> [ok |-> TRUE, flagsData |-> cfg.flags]
         [] cfg.shape = "file" ->
              LET es == OwnPropertyOrder(cfg.flags)
              IN IF \E i \in DOMAIN es : es[i].variations.form = "absent" THEN fail
                 ELSE [ok |-> TRUE,
                       flagsData |->
                         [i \in DOMAIN es |->
                            RawFlag(es[i].key,
                                    IF es[i].variation_type = <<>> THEN TUNKNOWN
                                    ELSE es[i].variation_type,
                                    NormalizeVariations(es[i].variations))]]
         [] OTHER -> fail

\* Lines 219-242: the flag list of a config, [ok, flagsData]; ok = FALSE is
\* a throw ('No flags found in config', or the TypeError of Object.values
\* on a flag without variations).
NormalizeConfig(cfg) ==
    LET fail == [ok |-> FALSE, flagsData |-> <<>>]
    IN CASE cfg.shape = "array" ->
              IF cfg.flags = <<>> THEN fail
              ELSE [ok |-> TRUE, flagsData |-> cfg.flags]
         [] cfg.shape = "file" ->
              LET es == OwnPropertyOrder(cfg.flags)
              IN IF \E i \in DOMAIN es : es[i].variations.form = "absent" THEN fail
                 ELSE IF es = <<>> THEN fail
                 ELSE [ok |-> TRUE,
                       flagsData |->
                         [i \in DOMAIN es |->
                            RawFlag(es[i].key,
                                    IF es[i].variation_type = <<>> THEN TUNKNOWN
                                    ELSE es[i].variation_type,
                                    NormalizeVariations(es[i].variations))]]
         [] OTHER -> fail

\* a slip of SuffixedKey: the suffix goes on the previous candidate
SuffixedFromPrevious(base, enumKey, counter) == enumKey \o <<"_">> \o NatToStr(counter)

\* the candidate the loop of lines 251-254 builds for a counter
SuffixedKey(base, enumKey, counter) == base \o <<"_">> \o NatToStr(counter)

\* a slip of UniqueLoop: an if in place of the while
UniqueLoopOnce(base, enumKey, counter, used) ==
    IF enumKey \in used THEN base \o <<"_">> \o NatToStr(counter) ELSE enumKey

\* Lines 247-254: the loop that looks for an unused enum key
RECURSIVE UniqueLoop(_, _, _, _)
UniqueLoop(base, enumKey, counter, used) ==
    IF enumKey \in used
    THEN UniqueLoop(base, SuffixedKey(base, enumKey, counter), counter + 1, used)
    ELSE enumKey

UniqueEnumKey(key, used) == UniqueLoop(toEnumKey(key), toEnumKey(key), 1, used)

\* Lines 258-276: the {key, value} pairs read from a flag's variations
ExtractVariations(variations) ==
    CASE variations.form = "array" ->
           SelectSeq([i \in DOMAIN variations.items |->
                        [key |-> variations.items[i].key,
                         value |-> variations.items[i].key]],
                     LAMBDA v : JsBoolean(v.key))
      [] variations.form = "map" ->
           LET vs == OwnPropertyOrder(variations.items)
           IN SelectSeq([i \in DOMAIN vs |->
                           [key |-> vs[i].key, value |-> vs[i].value]],
                        LAMBDA v : JsBoolean(v.key))
      [] OTHER -> <<>>

\* Lines 279-282
TypeVariations(variations, vtype) ==
    [i \in DOMAIN variations |->
       [key |-> variations[i].key,
        value |-> convertVariationValue(variations[i].value,
                                        IF vtype = <<>> THEN TSTRING ELSE vtype)]]

\* Lines 246-290: the callback of flagsData.map for one flag
ProcessedFlag(flagData, used) ==
    [key |-> flagData.key.s,
     enumKey |-> UniqueEnumKey(flagData.key.s, used),
     type |-> IF flagData.variation_type = <<>> THEN TUNKNOWN
              ELSE flagData.variation_type,
     variations |-> TypeVariations(ExtractVariations(flagData.variations),
                                   flagData.variation_type)]

\* toEnumKey(flagData.key) throws a TypeError unless the key is a string
KeyThrows(flagData) == TypeOf(flagData.key) # "string"

\* Lines 295-314: the literal of one variation value
VariationLiteral(type, value) ==
    IF type = TJSON /\ TypeOf(value) = "object" THEN JsonStringify(value)
    ELSE IF type = TJSON /\ TypeOf(value) = "string"
         THEN LET r == JsonParse(value.s)
              IN IF r.ok THEN JsonStringify(r.v)
                 ELSE formatValueForTypeScript(value)
         ELSE formatValueForTypeScript(value)

\* Line 317: one entry of the table, as the pieces the template puts
\* between its fixed words: the property name, the key and type between
\* double quotes, and the literals of the variations list.
EnumEntry(flag) ==
    [name |-> flag.enumKey,
     key |-> <<"\"">> \o flag.key \o <<"\"">>,
     type |-> <<"\"">> \o flag.type \o <<"\"">>,
     variations |-> [i \in DOMAIN flag.variations |->
                       VariationLiteral(flag.type, flag.variations[i].value)]]

-----------------------------------------------------------------------------
(* fetchEppoConfig: the response body *)

\* The body is a text of tokens: the punctuation of a JSON array, "{}" for
\* an object without flags, "<" for text that is not JSON, and F1, F2 for
\* the JSON text of one flag record each.
ApiFlag(tok) ==
    IF tok = "F1"
    THEN RawFlag(Str(<<"a">>), TSTRING,
                 VarArray(<<ArrayVariation(Str(<<"o","n">>), Str(<<"x">>))>>))
    ELSE RawFlag(Str(<<"A">>), TBOOLEAN,
                 VarArray(<<ArrayVariation(Str(<<"o","n">>), Bool(TRUE)),
                            ArrayVariation(Str(<<"o","f","f">>), Bool(FALSE))>>))

FlagTokens == {"F1", "F2"}

\* the elements between the brackets: F ("," F)*
RECURSIVE ParseElements(_)
ParseElements(toks) ==
    IF toks = <<>> \/ toks[1] \notin FlagTokens THEN [ok |-> FALSE, flags |-> <<>>]
    ELSE IF Len(toks) = 1 THEN [ok |-> TRUE, flags |-> <<ApiFlag(toks[1])>>]
    ELSE IF toks[2] # "," THEN [ok |-> FALSE, flags |-> <<>>]
    ELSE LET r == ParseElements(SubSeq(toks, 3, Len(toks)))
         IN [ok |-> r.ok, flags |-> <<ApiFlag(toks[1])>> \o r.flags]

\* JSON.parse(data) of line 194: [ok, config]
ParseBody(toks) ==
    IF toks = <<"{}">> THEN [ok |-> TRUE, config |-> OtherConfig]
    ELSE IF toks = <<"[", "]">> THEN [ok |-> TRUE, config |-> ArrayConfig(<<>>)]
    ELSE IF Len(toks) >= 3 /\ toks[1] = "[" /\ toks[Len(toks)] = "]"
         THEN LET r == ParseElements(SubSeq(toks, 2, Len(toks) - 1))
              IN [ok |-> r.ok, config |-> IF r.ok THEN ArrayConfig(r.flags) ELSE NoConfig]
         ELSE [ok |-> FALSE, config |-> NoConfig]

\* data += chunk (line 188)
AppendChunk(data, chunk) == data \o chunk

\* a slip of StatusOk: the status is not looked at
StatusAny(status) == TRUE

\* res.statusCode === 200 (line 192)
StatusOk(status) == status = 200

\* Lines 191-203: how the 'end' handler settles the promise
SettleOnEnd(status, data) ==
    IF StatusOk(status) /\ ParseBody(data).ok
    THEN [state |-> "resolved", value |-> ParseBody(data).config]
    ELSE [state |-> "rejected", value |-> NoConfig]

-----------------------------------------------------------------------------
(* The process *)

VARIABLES
    args,          \* the parsed command line: [help, api, apiKey, file]
    disk,          \* the config file: [ok, config], ok = FALSE when unparsable
    response,      \* what the network will deliver: [error, status, chunks]
    pc,            \* where the process is
    pending,       \* chunks of the response still to arrive
    received,      \* the chunks delivered so far, in arrival order
    data,          \* the handler's accumulator (line 185)
    promise,       \* the promise of fetchEppoConfig: [state, value]
    config,        \* the argument of generateEnumsFromConfig
    flagsData,     \* line 220
    usedEnumKeys,  \* line 245
    flags,         \* the results of flagsData.map so far (line 246)
    enumCode,      \* the rendered module (line 320)
    file,          \* the output file on disk
    exitCode,      \* the process exit code, -1 while it runs
    lookup,        \* a call of getEppoValue on an entry of the table
    probe          \* the input and results of a helper applied on its own

vars == <<args, disk, response, pc, pending, received, data, promise, config,
          flagsData, usedEnumKeys, flags, enumCode, file, exitCode, lookup, probe>>

runVarsButLookup ==
    <<args, disk, response, pc, pending, received, data, promise, config,
      flagsData, usedEnumKeys, flags, enumCode, file, exitCode>>

runVars == <<runVarsButLookup, lookup>>

\* the output file before the run: absent, or left by an earlier run
OldFile == [written |-> FALSE, timestamp |-> 0, source |-> "earlier", entries |-> <<>>]
NoCode == [written |-> FALSE, timestamp |-> 0, source |-> "", entries |-> <<>>]
NoProbe == [step |-> "none", value |-> Null, type |-> <<>>, once |-> Null, twice |-> Null,
            literal |-> <<>>]
NoResponse == [error |-> FALSE, status |-> 0, chunks |-> <<>>]
NoPromise == [state |-> "none", value |-> NoConfig]
NoLookup == [step |-> "none", flagEnum |-> [key |-> <<>>, type |-> <<>>],
             defaultValue |-> Null, calls |-> <<>>, clientValue |-> Undefined,
             threw |-> FALSE, result |-> Undefined]

\* a slip of Exit: process.exit() is called without the code
ExitWithoutCode(code) ==
    /\ pc' = "exited"
    /\ exitCode' = 0

\* process.exit(code)
Exit(code) ==
    /\ pc' = "exited"
    /\ exitCode' = code

\* Lines 387-467: the command line is dispatched
CliMain ==
    /\ pc = "cli"
    /\ IF args.help THEN Exit(0) /\ UNCHANGED promise
       ELSE IF args.api
            THEN IF ~args.apiKey THEN Exit(1) /\ UNCHANGED promise
                 ELSE /\ pc' = "fetching"
                      /\ promise' = [state |-> "pending", value |-> NoConfig]
                      /\ UNCHANGED exitCode
            ELSE IF args.file = "present"
                 THEN pc' = "read" /\ UNCHANGED <<exitCode, promise>>
                 ELSE Exit(1) /\ UNCHANGED promise
    /\ UNCHANGED <<args, disk, response, pending, received, data, config,
                   flagsData, usedEnumKeys, flags, enumCode, file, lookup, probe>>

\* Lines 359-370: generateEppoEnums reads and parses the config file
ReadConfig ==
    /\ pc = "read"
    /\ IF disk.ok
       THEN pc' = "normalize" /\ config' = disk.config /\ UNCHANGED exitCode
       ELSE Exit(1) /\ UNCHANGED config
    /\ UNCHANGED <<args, disk, response, pending, received, data, promise,
                   flagsData, usedEnumKeys, flags, enumCode, file, lookup, probe>>

\* Lines 187-189: a chunk of the response arrives
ResData ==
    /\ pc = "fetching"
    /\ ~response.error
    /\ pending # <<>>
    /\ data' = AppendChunk(data, Head(pending))
    /\ received' = Append(received, Head(pending))
    /\ pending' = Tail(pending)
    /\ UNCHANGED <<args, disk, response, pc, promise, config, flagsData,
                   usedEnumKeys, flags, enumCode, file, exitCode, lookup, probe>>

\* Lines 191-203: the response ends
ResEnd ==
    /\ pc = "fetching"
    /\ ~response.error
    /\ pending = <<>>
    /\ promise' = SettleOnEnd(response.status, data)
    /\ pc' = "settled"
    /\ UNCHANGED <<args, disk, response, pending, received, data, config,
                   flagsData, usedEnumKeys, flags, enumCode, file, exitCode, lookup, probe>>

\* Lines 206-208: the request fails
ReqError ==
    /\ pc = "fetching"
    /\ response.error
    /\ promise' = [state |-> "rejected", value |-> NoConfig]
    /\ pc' = "settled"
    /\ UNCHANGED <<args, disk, response, pending, received, data, config,
                   flagsData, usedEnumKeys, flags, enumCode, file, exitCode, lookup, probe>>

\* Lines 377-383: the await of generateEppoEnumsFromAPI resumes
AwaitFetch ==
    /\ pc = "settled"
    /\ IF promise.state = "resolved"
       THEN pc' = "normalize" /\ config' = promise.value /\ UNCHANGED exitCode
       ELSE Exit(1) /\ UNCHANGED config
    /\ UNCHANGED <<args, disk, response, pending, received, data, promise,
                   flagsData, usedEnumKeys, flags, enumCode, file, lookup, probe>>

\* a slip of NewUsedEnumKeys: the set lives outside the function and keeps
\* the names of the calls before
KeptUsedEnumKeys(previous) == previous

\* new Set<string>() of line 245: the set of a call starts empty, whatever
\* the set of the call before held
NewUsedEnumKeys(previous) == {}

\* Lines 219-245 (and the catch of lines 350-353)
Normalize ==
    /\ pc = "normalize"
    /\ IF NormalizeConfig(config).ok
       THEN /\ flagsData' = NormalizeConfig(config).flagsData
            /\ usedEnumKeys' = NewUsedEnumKeys(usedEnumKeys)
            /\ pc' = "map"
            /\ UNCHANGED exitCode
       ELSE Exit(1) /\ UNCHANGED <<flagsData, usedEnumKeys>>
    /\ UNCHANGED <<args, disk, response, pending, received, data, promise, config,
                   flags, enumCode, file, lookup, probe>>

\* a slip of ProcessFlag: each entry is appended to the output file as soon
\* as its flag is processed
ProcessFlagAppending ==
    /\ pc = "map"
    /\ Len(flags) < Len(flagsData)
    /\ LET flagData == flagsData[Len(flags) + 1]
       IN IF KeyThrows(flagData)
          THEN Exit(1) /\ UNCHANGED <<flags, usedEnumKeys, file>>
          ELSE LET flag == ProcessedFlag(flagData, usedEnumKeys)
               IN /\ flags' = Append(flags, flag)
                  /\ usedEnumKeys' = usedEnumKeys \cup {flag.enumKey}
                  /\ file' = [written |-> TRUE, timestamp |-> 1, source |-> "",
                              entries |-> Append(file.entries, EnumEntry(flag))]
                  /\ UNCHANGED <<pc, exitCode>>
    /\ UNCHANGED <<args, disk, response, pending, received, data, promise, config,
                   flagsData, enumCode, lookup, probe>>

\* Lines 246-290: the map callback runs for the next flag (and the catch of
\* lines 350-353 when it throws)
ProcessFlag ==
    /\ pc = "map"
    /\ Len(flags) < Len(flagsData)
    /\ LET flagData == flagsData[Len(flags) + 1]
       IN IF KeyThrows(flagData)
          THEN Exit(1) /\ UNCHANGED <<flags, usedEnumKeys>>
          ELSE LET flag == ProcessedFlag(flagData, usedEnumKeys)
               IN /\ flags' = Append(flags, flag)
                  /\ usedEnumKeys' = usedEnumKeys \cup {flag.enumKey}
                  /\ UNCHANGED <<pc, exitCode>>
    /\ UNCHANGED <<args, disk, response, pending, received, data, promise, config,
                   flagsData, enumCode, file, lookup, probe>>

\* path.basename(configPath) or `Eppo API` (lines 365 and 379)
SourceName == IF args.api THEN "Eppo API" ELSE "config.json"

\* the values new Date().toISOString() takes in the model
Timestamps == {1, 2}

\* Lines 293-335: the module text is rendered
Render ==
    /\ pc = "map"
    /\ Len(flags) = Len(flagsData)
    /\ \E now \in Timestamps :
         enumCode' = [written |-> TRUE, timestamp |-> now, source |-> SourceName,
                      entries |-> [i \in DOMAIN flags |-> EnumEntry(flags[i])]]
    /\ pc' = "write"
    /\ UNCHANGED <<args, disk, response, pending, received, data, promise, config,
                   flagsData, usedEnumKeys, flags, file, exitCode, lookup, probe>>

\* Line 338: fs.writeFileSync(outputPath, enumCode)
WriteFile ==
    /\ pc = "write"
    /\ file' = enumCode
    /\ pc' = "written"
    /\ UNCHANGED <<args, disk, response, pending, received, data, promise, config,
                   flagsData, usedEnumKeys, flags, enumCode, exitCode, lookup, probe>>

\* Lines 340-348: the summary is logged and the process ends
Finish ==
    /\ pc = "written"
    /\ pc' = "done"
    /\ exitCode' = 0
    /\ UNCHANGED <<args, disk, response, pending, received, data, promise, config,
                   flagsData, usedEnumKeys, flags, enumCode, file, lookup, probe>>

Next ==
    \/ CliMain
    \/ ReadConfig
    \/ ResData
    \/ ResEnd
    \/ ReqError
    \/ AwaitFetch
    \/ Normalize
    \/ ProcessFlag
    \/ Render
    \/ WriteFile
    \/ Finish

-----------------------------------------------------------------------------
(* Inputs *)

SeqsUpTo(S, n) == UNION { [1..k -> S] : k \in 0..n }
Injective(f) == \A i, j \in DOMAIN f : i # j => f[i] # f[j]

DarkModeSpace == <<"d","a","r","k"," ","m","o","d","e">>
DarkModeDash == <<"d","a","r","k","-","m","o","d","e">>
StrOn == <<"o","n">>
StrOff == <<"o","f","f">>

\* flag names: ones that canonicalize to the same base name, to the empty
\* string, to another name's suffixed form, an array-index name, and a name
\* with a double quote
NameStrings ==
    { <<"a">>, <<"A">>, <<"a","_","1">>, <<>>, <<"-">>, <<"1">>, <<"a","\"">>,
      DarkModeSpace, DarkModeDash }

\* the key of an array config's flag record: a string, or missing
NameKeys == { Str(k) : k \in NameStrings } \cup {Undefined}

NameConfigs(n) ==
    { ArrayConfig([i \in DOMAIN ks |-> RawFlag(ks[i], TSTRING, NoVariations)]) :
        ks \in SeqsUpTo(NameKeys, n) }
    \cup
    { FileConfig([i \in DOMAIN ks |-> FileFlag(ks[i], TSTRING, VarMap(<<>>))]) :
        ks \in { f \in SeqsUpTo(NameStrings, n) : Injective(f) } }

\* the dark-mode config of the README and of the spec's scenario
DarkModeVariations ==
    VarMap(<<Variation(StrOn, Str(StrOn), Str(StrTrue)),
             Variation(StrOff, Str(StrOff), Str(StrFalse))>>)
DarkModeConfig == FileConfig(<<FileFlag(DarkModeDash, TBOOLEAN, DarkModeVariations)>>)

\* configs every specification starts from: no flags property, a file flag
\* without variations, the dark-mode scenario
CommonConfigs ==
    { OtherConfig,
      FileConfig(<<FileFlag(<<"a">>, TSTRING, NoVariations)>>),
      DarkModeConfig }

\* raw variation values
InputValues ==
    { Null, Undefined, Bool(TRUE), Bool(FALSE), Num(0), Num(25),
      Str(StrTrue), Str(<<"T","r","u","e">>), Str(<<"1","0">>),
      Str(<<"1","2","a","b","c">>), Str(<<"a","b","c">>), Str(<<>>),
      Str(<<"\"","5","\"">>), Str(<<"{","}">>), Obj(<<"{","}">>),
      Obj(<<"[","1","]">>) }

TOTHER == <<"X">>
DeclaredTypes == { TBOOLEAN, TNUMBER, TNUMERIC, TJSON, TSTRING, TUNKNOWN, TOTHER, <<>> }

\* the {variant key, value} pairs of the value inputs: every value under the
\* key "on", and a pair without a key and with an empty key
InputPairs ==
    { [key |-> Str(StrOn), value |-> v] : v \in InputValues }
    \cup { [key |-> Undefined, value |-> Str(<<"x">>)],
           [key |-> Str(<<>>), value |-> Str(<<"x">>)] }

\* the property names of a variation mapping, in textual order
VariationName(i) == <<"v">> \o NatToStr(i)

PairsAsArray(ps) == VarArray([i \in DOMAIN ps |-> ArrayVariation(ps[i].key, ps[i].value)])
PairsAsMap(ps) ==
    VarMap([i \in DOMAIN ps |-> Variation(VariationName(i), ps[i].key, ps[i].value)])

ValueConfigs(n) ==
    UNION { { ArrayConfig(<<RawFlag(Str(DarkModeDash), t, PairsAsArray(ps))>>),
              ArrayConfig(<<RawFlag(Str(DarkModeDash), t, PairsAsMap(ps))>>),
              FileConfig(<<FileFlag(DarkModeDash, t, PairsAsMap(ps))>>) } :
            <<t, ps>> \in DeclaredTypes \X SeqsUpTo(InputPairs, n) }

\* the bodies a response can carry
Bodies ==
    { <<"[", "F1", "]">>, <<"[", "F1", ",", "F2", "]">>, <<"[", "F2", ",", "F1", "]">>,
      <<"[", "]">>, <<"{}">>, <<"<">>, <<"[", "F1">>, <<>> }

Max(S) == CHOOSE x \in S : \A y \in S : y <= x

\* body cut after the positions of cuts
RECURSIVE Split(_, _)
Split(body, cuts) ==
    IF cuts = {} THEN <<body>>
    ELSE LET c == Max(cuts)
         IN Split(SubSeq(body, 1, c), cuts \ {c}) \o <<SubSeq(body, c + 1, Len(body))>>

\* the ways a body arrives: in at most MaxChunks non-empty chunks
Chunkings(body) ==
    IF body = <<>> THEN { <<>> }
    ELSE { Split(body, cuts) :
             cuts \in { c \in SUBSET (1..(Len(body) - 1)) : Cardinality(c) < MaxChunks } }

Statuses == {200, 204, 401}

Responses ==
    { [error |-> TRUE, status |-> 0, chunks |-> <<>>] }
    \cup { [error |-> FALSE, status |-> st, chunks |-> ch] :
             st \in Statuses, ch \in UNION { Chunkings(b) : b \in Bodies } }

\* the runs that touch neither the config file nor the network
IdleArgs ==
    { [help |-> TRUE, api |-> FALSE, apiKey |-> FALSE, file |-> "present"],
      [help |-> TRUE, api |-> TRUE, apiKey |-> TRUE, file |-> "none"],
      [help |-> FALSE, api |-> TRUE, apiKey |-> FALSE, file |-> "none"],
      [help |-> FALSE, api |-> FALSE, apiKey |-> FALSE, file |-> "none"],
      [help |-> FALSE, api |-> FALSE, apiKey |-> TRUE, file |-> "missing"] }
ApiArgs == [help |-> FALSE, api |-> TRUE, apiKey |-> TRUE, file |-> "none"]
FileArgs == [help |-> FALSE, api |-> FALSE, apiKey |-> FALSE, file |-> "present"]

InitIdle ==
    /\ pc = "cli"
    /\ pending = response.chunks
    /\ received = <<>>
    /\ data = <<>>
    /\ promise = NoPromise
    /\ config = NoConfig
    /\ flagsData = <<>>
    /\ usedEnumKeys = {}
    /\ flags = <<>>
    /\ enumCode = NoCode
    /\ file = OldFile
    /\ exitCode = -1
    /\ lookup = NoLookup
    /\ probe = NoProbe

\* a run of the command line over the file configs of Configs
InitRun(Configs) ==
    /\ \/ /\ args \in IdleArgs
          /\ disk = [ok |-> FALSE, config |-> NoConfig]
          /\ response = NoResponse
       \/ /\ args = ApiArgs
          /\ disk = [ok |-> FALSE, config |-> NoConfig]
          /\ response \in Responses
       \/ /\ args = FileArgs
          /\ disk \in { [ok |-> FALSE, config |-> NoConfig] }
                      \cup { [ok |-> TRUE, config |-> c] : c \in Configs \cup CommonConfigs }
          /\ response = NoResponse
    /\ InitIdle

\* runs over the name inputs
Init == InitRun(NameConfigs(MaxFlags))
Spec == Init /\ [][Next]_vars

\* runs over the value inputs
InitValues == InitRun(ValueConfigs(MaxVars))
SpecValues == InitValues /\ [][Next]_vars

-----------------------------------------------------------------------------
(* convertVariationValue applied on its own, once and again *)

CoerceAlphabet == {"1", "a", "\"", "\\", "-"}

CoerceValues ==
    InputValues
    \cup { Str(x) : x \in SeqsUpTo(CoerceAlphabet, MaxLen) }
    \cup { Str(<<"\"","a","\"">>), Str(<<"\"","[","1","]","\"">>),
           Str(<<" ","7">>), Str(<<"[","1","]">>), Str(StrNull) }

\* a helper is applied on its own to a value of Values under a type of Types
InitProbe(Values, Types) ==
    /\ args \in IdleArgs /\ args.help /\ args.api
    /\ disk = [ok |-> FALSE, config |-> NoConfig]
    /\ response = NoResponse
    /\ pc = "probe"
    /\ pending = <<>>
    /\ received = <<>>
    /\ data = <<>>
    /\ promise = NoPromise
    /\ config = NoConfig
    /\ flagsData = <<>>
    /\ usedEnumKeys = {}
    /\ flags = <<>>
    /\ enumCode = NoCode
    /\ file = OldFile
    /\ exitCode = -1
    /\ lookup = NoLookup
    /\ probe \in { [NoProbe EXCEPT !.step = "in", !.value = v, !.type = t] :
                     v \in Values, t \in Types }

InitCoerce == InitProbe(CoerceValues, DeclaredTypes)

CoerceOnce ==
    /\ probe.step = "in"
    /\ probe' = [probe EXCEPT !.step = "once",
                              !.once = convertVariationValue(probe.value, probe.type)]
    /\ UNCHANGED runVars

CoerceTwice ==
    /\ probe.step = "once"
    /\ probe' = [probe EXCEPT !.step = "twice",
                              !.twice = convertVariationValue(probe.once, probe.type)]
    /\ UNCHANGED runVars

NextCoerce == CoerceOnce \/ CoerceTwice

SpecCoerce == InitCoerce /\ [][NextCoerce]_vars

-----------------------------------------------------------------------------
(* Reading the emitted table back *)

\* the inside of a double-quoted string literal of the emitted source,
\* decoded: a raw double quote or line break ends or breaks the literal, a
\* backslash takes the next character with it
RECURSIVE TsUnescape(_)
TsUnescape(s) ==
    IF s = <<>> THEN [ok |-> TRUE, s |-> <<>>]
    ELSE IF s[1] = "\\"
         THEN IF Len(s) >= 2
              THEN LET r == TsUnescape(SubSeq(s, 3, Len(s)))
                   IN [ok |-> r.ok, s |-> <<JsonEscaped(s[2])>> \o r.s]
              ELSE [ok |-> FALSE, s |-> <<>>]
         ELSE IF s[1] \in {"\"", "\n", "\r"}
              THEN [ok |-> FALSE, s |-> <<>>]
              ELSE LET r == TsUnescape(Tail(s))
                   IN [ok |-> r.ok, s |-> <<s[1]>> \o r.s]

\* a text read as one string literal: [ok, s]
ReadStringLiteral(text) ==
    IF Len(text) >= 2 /\ text[1] = "\"" /\ text[Len(text)] = "\""
    THEN TsUnescape(SubSeq(text, 2, Len(text) - 1))
    ELSE [ok |-> FALSE, s |-> <<>>]

\* a text read as one value literal: [ok, v]
ReadValueLiteral(text) ==
    CASE text = StrNull -> [ok |-> TRUE, v |-> Null]
      [] text = StrTrue -> [ok |-> TRUE, v |-> Bool(TRUE)]
      [] text = StrFalse -> [ok |-> TRUE, v |-> Bool(FALSE)]
      [] IsJsonInt(text) ->
           [ok |-> TRUE,
            v |-> Num(IF text[1] = "-" THEN 0 - DigitsVal(Tail(text)) ELSE DigitsVal(text))]
      [] text \in StructuredTexts -> [ok |-> TRUE, v |-> Obj(text)]
      [] OTHER -> LET r == ReadStringLiteral(text)
                  IN [ok |-> r.ok, v |-> Str(r.s)]

-----------------------------------------------------------------------------
(* Claims *)

\* the enum keys handed out before the i-th flag was processed
UsedBefore(i) == { flags[j].enumKey : j \in 1..(i - 1) }

\* C1: the symbolic names assigned in a run, and the property names of the
\* table written to the output file, are pairwise distinct.
UniqueSymbolicNames ==
    /\ \A i, j \in DOMAIN flags : i # j => flags[i].enumKey # flags[j].enumKey
    /\ \A i, j \in DOMAIN file.entries :
         i # j => file.entries[i].name # file.entries[j].name

\* a finished run over the keys 'a', 'a', 'a_1'
UniqueSymbolicNamesWitness ==
    /\ pc = "done"
    /\ file.written
    /\ Len(flags) = 3
    /\ flags[1].key = <<"a">>
    /\ flags[2].key = <<"a">>
    /\ flags[3].key = <<"a","_","1">>

\* C2: a file-shape config yields, for each variation, its key and the
\* coercion of its value field under the flag's type; the dark-mode config
\* yields one BOOLEAN flag DARK_MODE with on -> true and off -> false.
FileShapeVariations ==
    /\ (pc = "done" /\ config.shape = "file") =>
         LET es == OwnPropertyOrder(config.flags)
         IN \A i \in DOMAIN flags :
              LET vs == OwnPropertyOrder(es[i].variations.items)
              IN /\ Len(flags[i].variations) = Len(vs)
                 /\ \A j \in DOMAIN vs :
                      flags[i].variations[j] =
                        [key |-> vs[j].key,
                         value |-> convertVariationValue(vs[j].value, flags[i].type)]
    /\ (pc = "done" /\ config = DarkModeConfig) =>
         flags = << [key |-> DarkModeDash,
                     enumKey |-> <<"D","A","R","K","_","M","O","D","E">>,
                     type |-> TBOOLEAN,
                     variations |-> << [key |-> Str(StrOn), value |-> Bool(TRUE)],
                                       [key |-> Str(StrOff), value |-> Bool(FALSE)] >>] >>

\* C3: flags are processed in input order, and the first flag whose key
\* canonicalizes to a base name receives that base name without a suffix.
FirstOccurrenceKeepsBase ==
    /\ \A i \in DOMAIN flags : flags[i].key = flagsData[i].key.s
    /\ \A i \in DOMAIN flags :
         (\A j \in 1..(i - 1) : toEnumKey(flags[j].key) # toEnumKey(flags[i].key))
           => flags[i].enumKey = toEnumKey(flags[i].key)

\* C4: a flag whose base name is already used receives base_k for the
\* smallest k >= 1 whose base_k is unused, the suffix put on the base name.
SmallestFreeSuffix ==
    \A i \in DOMAIN flags :
      LET base == toEnumKey(flags[i].key)
          cand(k) == base \o <<"_">> \o NatToStr(k)
      IN base \in UsedBefore(i) =>
           \E k \in 1..i :
              /\ flags[i].enumKey = cand(k)
              /\ cand(k) \notin UsedBefore(i)
              /\ \A m \in 1..(k - 1) : cand(m) \in UsedBefore(i)

\* "dark mode" then "dark-mode": DARK_MODE then DARK_MODE_1
SmallestFreeSuffixWitness ==
    /\ pc = "done"
    /\ Len(flags) = 2
    /\ flags[1].key = DarkModeSpace
    /\ flags[2].key = DarkModeDash
    /\ flags[1].enumKey = <<"D","A","R","K","_","M","O","D","E">>
    /\ flags[2].enumKey = <<"D","A","R","K","_","M","O","D","E","_","1">>

\* C5: a config that is neither an array nor an object with flags, or whose
\* flag list is empty, ends the run with exit code 1 and no write.
ShapelessConfigRejected ==
    (config # NoConfig /\ (config.shape = "other" \/ config.flags = <<>>)) =>
      /\ file = OldFile
      /\ enumCode = NoCode
      /\ pc \in {"normalize", "exited"}
      /\ (pc = "exited" => exitCode = 1)

\* the run over {flags: {}} has exited
ShapelessConfigRejectedWitness ==
    /\ pc = "exited"
    /\ exitCode = 1
    /\ config = FileConfig(<<>>)

\* C6: the output file is written only once every flag is processed and
\* rendered, and a run that fails leaves the file as it was.
WriteOnlyAfterAll ==
    /\ file # OldFile =>
         /\ pc \in {"written", "done"}
         /\ file = enumCode
         /\ Len(flags) = Len(flagsData)
         /\ Len(file.entries) = Len(flagsData)
         /\ \A i \in DOMAIN flags : file.entries[i] = EnumEntry(flags[i])
    /\ exitCode = 1 => file = OldFile

\* a flag without a key stops the run after an earlier flag was processed
WriteOnlyAfterAllWitness ==
    /\ pc = "exited"
    /\ exitCode = 1
    /\ Len(flags) >= 1
    /\ Len(flags) < Len(flagsData)
    /\ file = OldFile

\* the chunks of a sequence, concatenated in order
RECURSIVE Flatten(_)
Flatten(chunks) == IF chunks = <<>> THEN <<>> ELSE Head(chunks) \o Flatten(Tail(chunks))

\* C7: in API mode a status outside 2xx, an unparsable body or a request
\* error rejects the fetch; after a rejection nothing is normalized or
\* written and the exit code is 1; normalization starts only after the
\* response has ended, on the chunks concatenated in arrival order.
FetchFailureIsFatal ==
    /\ (promise.state \notin {"none", "pending"}
          /\ (\/ response.error
              \/ response.status \notin 200..299
              \/ ~ParseBody(Flatten(response.chunks)).ok))
         => promise.state = "rejected"
    /\ promise.state = "rejected" =>
         /\ config = NoConfig
         /\ flagsData = <<>>
         /\ flags = <<>>
         /\ enumCode = NoCode
         /\ file = OldFile
         /\ pc \in {"settled", "exited"}
         /\ (pc = "exited" => exitCode = 1)
    /\ data = Flatten(received)
    /\ (args.api /\ config # NoConfig) =>
         /\ pending = <<>>
         /\ received = response.chunks
         /\ promise.state = "resolved"
         /\ config = ParseBody(Flatten(received)).config

\* a 401 whose body, arrived in two chunks or more, is valid JSON
FetchFailureIsFatalWitness ==
    /\ pc = "exited"
    /\ exitCode = 1
    /\ response.status = 401
    /\ Len(received) >= 2
    /\ ParseBody(data).ok

\* C8: reading the written table back gives, in order, the key, the type
\* and the variation values of every processed flag.
EmissionRoundTrip ==
    file.written =>
      /\ Len(file.entries) = Len(flags)
      /\ \A i \in DOMAIN file.entries :
           LET e == file.entries[i]
           IN /\ ReadStringLiteral(e.key) = [ok |-> TRUE, s |-> flags[i].key]
              /\ ReadStringLiteral(e.type) = [ok |-> TRUE, s |-> flags[i].type]
              /\ Len(e.variations) = Len(flags[i].variations)
              /\ \A j \in DOMAIN e.variations :
                   ReadValueLiteral(e.variations[j]) =
                     [ok |-> TRUE, v |-> flags[i].variations[j].value]

\* a JSON-typed string whose parse result is a string that parses again
ParsesTwice(value, type) ==
    /\ type = TJSON
    /\ TypeOf(value) = "string"
    /\ JsonParse(value.s).ok
    /\ TypeOf(JsonParse(value.s).v) = "string"
    /\ JsonParse(JsonParse(value.s).v.s).ok

\* C9 as stated: coercing a coerced value changes nothing, for every raw
\* value and declared type.
CoercionIdempotent ==
    probe.step = "twice" => probe.twice = probe.once

\* C9 as amended: coercing a coerced value changes nothing, except for a
\* JSON-typed string whose parse result is itself a string that parses as
\* JSON, which the second coercion parses again.
CoercionIdempotentButNestedJson ==
    probe.step = "twice" =>
      (ParsesTwice(probe.value, probe.type) <=> probe.twice # probe.once)

\* a JSON-typed string whose parse result is a string, coerced twice
CoercionIdempotentWitness ==
    /\ probe.step = "twice"
    /\ probe.type = TJSON
    /\ TypeOf(probe.value) = "string"
    /\ TypeOf(probe.once) = "string"
    /\ probe.once # probe.value
    /\ probe.twice = probe.once

\* the runtime type a declared type asks for
HasDeclaredType(v, type) ==
    CASE type = TBOOLEAN -> TypeOf(v) = "boolean"
      [] type \in {TNUMBER, TNUMERIC} -> TypeOf(v) = "number"
      [] type = TJSON -> TypeOf(v) = "object"
      [] OTHER -> TypeOf(v) = "string"

\* a string that starts, after white space and a sign, with a digit
StartsWithNumeral(s) ==
    LET t == TrimLeft(s)
        u == IF t # <<>> /\ t[1] \in {"+", "-"} THEN Tail(t) ELSE t
    IN u # <<>> /\ IsDigit(u[1])

\* the raw values the i-th flag's variations were coerced from
RawVariations(i) == ExtractVariations(flagsData[i].variations)

-----------------------------------------------------------------------------
(* generateEnumsFromConfig as a whole *)

\* Lines 245-290: flagsData.map over the flags from the one after done on,
\* [ok, flags]; ok = FALSE when a callback throws
RECURSIVE MapFlagsFrom(_, _, _)
MapFlagsFrom(fData, done, used) ==
    IF Len(done) = Len(fData) THEN [ok |-> TRUE, flags |-> done]
    ELSE LET flagData == fData[Len(done) + 1]
         IN IF KeyThrows(flagData) THEN [ok |-> FALSE, flags |-> <<>>]
            ELSE LET flag == ProcessedFlag(flagData, used)
                 IN MapFlagsFrom(fData, Append(done, flag), used \cup {flag.enumKey})

\* Lines 219-290 for a config: [ok, flags]; ok = FALSE when the try block
\* throws before the flags are there
GeneratedFlags(cfg) ==
    IF NormalizeConfig(cfg).ok
    THEN MapFlagsFrom(NormalizeConfig(cfg).flagsData, <<>>, {})
    ELSE [ok |-> FALSE, flags |-> <<>>]

\* the variation collection of a file-shape flag, written in the API shape:
\* the same variant keys and values in the same order
ApiTwinVariations(variations) ==
    IF variations.form = "absent" THEN NoVariations
    ELSE VarArray([i \in DOMAIN variations.items |->
                     ArrayVariation(variations.items[i].key, variations.items[i].value)])

\* the API-shape config that describes the flags of a file-shape config
ApiTwin(cfg) ==
    ArrayConfig([i \in DOMAIN cfg.flags |->
                   RawFlag(cfg.flags[i].key, cfg.flags[i].variation_type,
                           ApiTwinVariations(cfg.flags[i].variations))])

\* C11: a run over a file-shape config ends as the run over the API-shape
\* config describing the same flags does: both succeed or both fail, and on
\* success the processed flags and the entries of the table are the same.
ShapesAgree ==
    (config.shape = "file" /\ pc \in {"done", "exited"}) =>
      LET twin == GeneratedFlags(ApiTwin(config))
      IN /\ (pc = "done") <=> twin.ok
         /\ pc = "done" =>
              /\ flags = twin.flags
              /\ file.entries = [i \in DOMAIN twin.flags |-> EnumEntry(twin.flags[i])]

\* the declared type the coercion of a flag's values runs under (line 281)
CoercionType(flagData) ==
    IF flagData.variation_type = <<>> THEN TSTRING ELSE flagData.variation_type

\* C12: the variations of every processed flag are the input variations of
\* its collection, one for one and in input order: the j-th has the j-th
\* input variation's variant key and the coercion of what that variation
\* carries, and the table lists as many literals.
VariationsFollowInput ==
    /\ \A i \in DOMAIN flags :
         LET input == flagsData[i].variations.items
             type == CoercionType(flagsData[i])
         IN /\ Len(flags[i].variations) = Len(input)
            /\ \A j \in DOMAIN flags[i].variations :
                 j <= Len(input) =>
                   /\ flags[i].variations[j].key = input[j].key
                   /\ flags[i].variations[j].value \in
                        { convertVariationValue(input[j].value, type),
                          convertVariationValue(input[j].key, type) }
    /\ file.written =>
         \A i \in DOMAIN file.entries :
           Len(file.entries[i].variations) = Len(flagsData[i].variations.items)

\* the run has ended: the summary was logged or process.exit was called
Ended == pc \in {"done", "exited"}

\* the guard of the step the process is at holds
StepEnabled ==
    \/ pc \in {"cli", "read", "settled", "normalize", "write", "written"}
    \/ pc = "fetching" /\ (response.error \/ pending # <<>> \/ pending = <<>>)
    \/ pc = "map" /\ Len(flags) <= Len(flagsData)

\* the handled failures of a run that does not show the help
HandledFailure ==
    \/ args.api /\ ~args.apiKey
    \/ ~args.api /\ args.file # "present"
    \/ ~args.api /\ args.file = "present" /\ ~disk.ok
    \/ promise.state = "rejected"
    \/ config # NoConfig /\ ~GeneratedFlags(config).ok

\* C13: a run ends with exit code 0 or 1 and no other, and a run that has
\* not ended is at a step it can take; the code is 1 exactly for the handled failures
\* (no credential, no source, no readable config file, a failed fetch, a bad
\* config), 0 when the help was shown or the table was written; a run that
\* ends with 1 has left the output file as it was.
ExitCodeZeroOrOne ==
    /\ exitCode \in {-1, 0, 1}
    /\ Ended <=> exitCode # -1
    /\ ~Ended => StepEnabled
    /\ (Ended /\ args.help) => exitCode = 0 /\ file = OldFile
    /\ (Ended /\ ~args.help) => (exitCode = 1 <=> HandledFailure)
    /\ (exitCode = 0 /\ ~args.help) => pc = "done" /\ file.written /\ file = enumCode
    /\ exitCode = 1 => file = OldFile

\* --api without a credential has ended the run with 1
ExitCodeZeroOrOneWitness ==
    /\ pc = "exited"
    /\ exitCode = 1
    /\ args.api
    /\ ~args.apiKey
    /\ ~args.help
    /\ file = OldFile

\* an identifier of [A-Z0-9_] characters: not empty, no digit in front
IsSafeIdentifier(name) ==
    /\ name # <<>>
    /\ \A k \in DOMAIN name : IsUpper(name[k]) \/ IsDigit(name[k]) \/ name[k] = "_"
    /\ ~IsDigit(name[1])

\* C14: every symbolic name assigned to a flag, and every property name of
\* the written table, is a non-empty identifier of [A-Z0-9_] characters that
\* does not start with a digit.
SafeIdentifiers ==
    /\ \A i \in DOMAIN flags : IsSafeIdentifier(flags[i].enumKey)
    /\ \A i \in DOMAIN file.entries : IsSafeIdentifier(file.entries[i].name)

-----------------------------------------------------------------------------
(* eppo-helper.js: getEppoValue on an entry of the generated table *)

\* the switch of getEppoValue: the client getter of a type, "none" for the
\* default case, which throws
GetterOfType(type) ==
    CASE type = TSTRING -> "getStringValue"
      [] type = TBOOLEAN -> "getBooleanValue"
      [] type = TJSON -> "getJSONValue"
      [] type = TNUMBER -> "getNumericValue"
      [] OTHER -> "none"

\* the default values of the calls, and what the client has for a flag
DefaultValues == { Null, Str(<<"x">>) }
AssignedValue == Bool(TRUE)

\* getEppoValue(EppoFlags.NAME, defaultValue, eppoClient) in a program that
\* imports the table the run has written; the client returns the assigned
\* value or the default it was given
getEppoValue ==
    /\ pc = "done"
    /\ lookup.step = "none"
    /\ \E i \in DOMAIN flags, d \in DefaultValues :
         \E r \in {d, AssignedValue} :
           LET flagEnum == [key |-> flags[i].key, type |-> flags[i].type]
               getter == GetterOfType(flagEnum.type)
           IN lookup' =
                IF getter = "none"
                THEN [step |-> "thrown", flagEnum |-> flagEnum, defaultValue |-> d,
                      calls |-> <<>>, clientValue |-> Undefined,
                      threw |-> TRUE, result |-> Undefined]
                ELSE [step |-> "returned", flagEnum |-> flagEnum, defaultValue |-> d,
                      calls |-> << [getter |-> getter, key |-> flagEnum.key,
                                    defaultValue |-> d] >>,
                      clientValue |-> r, threw |-> FALSE, result |-> r]
    /\ UNCHANGED <<runVarsButLookup, probe>>

\* one flag of every declared type, and two flags of different types
HelperConfigs ==
    { ArrayConfig(<<RawFlag(Str(<<"a">>), t, NoVariations)>>) : t \in DeclaredTypes }
    \cup { ArrayConfig(<<RawFlag(Str(<<"a">>), TNUMERIC, NoVariations),
                         RawFlag(Str(<<"A">>), TJSON, NoVariations)>>) }

InitHelper == InitRun(HelperConfigs)
NextHelper == Next \/ getEppoValue
SpecHelper == InitHelper /\ [][NextHelper]_vars

\* the types the README lists as supported, and the getter of each
SupportedTypes == { TSTRING, TBOOLEAN, TJSON, TNUMBER, TNUMERIC }
MatchingGetter(type) ==
    CASE type = TSTRING -> "getStringValue"
      [] type = TBOOLEAN -> "getBooleanValue"
      [] type = TJSON -> "getJSONValue"
      [] OTHER -> "getNumericValue"

\* C15: getEppoValue on an entry of a supported type calls the one getter
\* matching the type with the entry's key and the default value and returns
\* what the getter returned; it throws only for a type that is not supported.
HelperDispatches ==
    lookup.step # "none" =>
      /\ lookup.flagEnum.type \in SupportedTypes =>
           /\ ~lookup.threw
           /\ lookup.calls = << [getter |-> MatchingGetter(lookup.flagEnum.type),
                                 key |-> lookup.flagEnum.key,
                                 defaultValue |-> lookup.defaultValue] >>
           /\ lookup.result = lookup.clientValue
      /\ lookup.flagEnum.type \notin SupportedTypes =>
           lookup.threw /\ lookup.calls = <<>>

-----------------------------------------------------------------------------
(* generateEppoEnums called again in the same process *)

\* flags in one config of the repeated calls
MaxCallFlags == 2

\* keys that canonicalize to one name, and to that name's suffixed form
CallNames == { <<"a">>, <<"A">>, <<"a","_","1">> }

CallConfigs(n) ==
    { ArrayConfig([i \in DOMAIN ks |-> RawFlag(Str(ks[i]), TSTRING, NoVariations)]) :
        ks \in SeqsUpTo(CallNames, n) \ { <<>> } }

\* Line 469 exports generateEppoEnums: a program that imports it calls it
\* once more after a call has returned, on the config file as it is then.
\* The locals of the call before are gone; the output file stays.  exitCode
\* goes back to -1: the process has not ended.
CallGenerateEppoEnums ==
    /\ pc = "done"
    /\ \E c \in CallConfigs(MaxCallFlags) : disk' = [ok |-> TRUE, config |-> c]
    /\ args' = FileArgs
    /\ pc' = "read"
    /\ exitCode' = -1
    /\ config' = NoConfig
    /\ flagsData' = <<>>
    /\ flags' = <<>>
    /\ enumCode' = NoCode
    /\ UNCHANGED <<response, pending, received, data, promise, usedEnumKeys, file,
                   lookup, probe>>

InitCalls == InitRun(CallConfigs(MaxCallFlags))
NextCalls == Next \/ CallGenerateEppoEnums
SpecCalls == InitCalls /\ [][NextCalls]_vars

\* C16: in every call, the first or a later one, each flag gets the name
\* that the names of the flags before it in this call alone determine; the
\* used-names set holds the names of this call only; and a finished call has
\* produced the flags, and written the entries and the label, that a first
\* call on the same config produces.
NamesArePerCall ==
    /\ \A i \in DOMAIN flags :
         flags[i].enumKey = UniqueEnumKey(flags[i].key, UsedBefore(i))
    /\ pc \in {"map", "write", "written", "done"} =>
         usedEnumKeys = { flags[i].enumKey : i \in DOMAIN flags }
    /\ pc = "done" =>
         /\ GeneratedFlags(config).ok
         /\ flags = GeneratedFlags(config).flags
         /\ file.entries = [i \in DOMAIN flags |-> EnumEntry(flags[i])]
         /\ file.source = SourceName

\* a later call has given its first flag the name A, which the table of the
\* call before, still in the output file, holds as well
NamesArePerCallWitness ==
    /\ pc = "map"
    /\ file.written
    /\ file.entries[1].name = <<"A">>
    /\ Len(flags) = Len(flagsData)
    /\ flags[1].enumKey = <<"A">>
    /\ usedEnumKeys = { flags[i].enumKey : i \in DOMAIN flags }

\* a string that as a whole, white space around it aside, is a decimal
\* numeral with an optional sign, and the number it denotes
UnsignedPart(s) == IF Trim(s) # <<>> /\ Trim(s)[1] \in {"+", "-"} THEN Tail(Trim(s)) ELSE Trim(s)
DenotesNumber(s) ==
    /\ UnsignedPart(s) # <<>>
    /\ \A k \in DOMAIN UnsignedPart(s) : IsDigit(UnsignedPart(s)[k])
NumberDenoted(s) ==
    IF Trim(s)[1] = "-" THEN 0 - DigitsVal(UnsignedPart(s)) ELSE DigitsVal(UnsignedPart(s))

\* C17: under NUMBER or NUMERIC a number comes back unchanged, a string that
\* as a whole denotes a number comes back as that number, and every other
\* string comes back as the string it was.
NumericWholeString ==
    (probe.step \in {"once", "twice"} /\ probe.type \in {TNUMBER, TNUMERIC}) =>
      CASE TypeOf(probe.value) = "number" -> probe.once = probe.value
        [] TypeOf(probe.value) = "string" ->
             IF DenotesNumber(probe.value.s)
             THEN probe.once = Num(NumberDenoted(probe.value.s))
             ELSE probe.once = probe.value
        [] OTHER -> TRUE

\* a config of either shape with flags, every one with a string key and a
\* variation collection that is absent or empty
WithoutVariations(cfg) ==
    /\ cfg.shape \in {"array", "file"}
    /\ cfg.flags # <<>>
    /\ \A i \in DOMAIN cfg.flags :
         /\ TypeOf(cfg.flags[i].key) = "string"
         /\ cfg.flags[i].variations.items = <<>>

\* C18: a run over flags whose variation collections are absent or empty
\* succeeds, and the table holds every flag with the empty list [] as its
\* variations.
EmptyVariationsSucceed ==
    (Ended /\ WithoutVariations(config)) =>
      /\ pc = "done"
      /\ exitCode = 0
      /\ file.written
      /\ Len(file.entries) = Len(config.flags)
      /\ \A i \in DOMAIN file.entries :
           /\ flags[i].variations = <<>>
           /\ file.entries[i].variations = <<>>

-----------------------------------------------------------------------------
(* formatValueForTypeScript applied on its own *)

\* the five characters the formatter escapes, and ordinary letters
FormatAlphabet == {"\\", "\"", "\n", "\r", "\t", "a", "n"}

FormatValues ==
    InputValues
    \cup { Num(0 - 3) }
    \cup { Str(x) : x \in SeqsUpTo(FormatAlphabet, MaxLen) }

InitFormat == InitProbe(FormatValues, {TSTRING})

FormatValue ==
    /\ probe.step = "in"
    /\ probe' = [probe EXCEPT !.step = "formatted",
                              !.literal = formatValueForTypeScript(probe.value)]
    /\ UNCHANGED runVars

NextFormat == FormatValue

SpecFormat == InitFormat /\ [][NextFormat]_vars

\* C19: the literal of null is null, of a boolean or a number its bare
\* token, of an object or array its unquoted text; the literal of a string
\* is between double quotes, holds no raw line break or tab, and read back
\* as a string literal gives the string itself.
FormatRoundTrip ==
    probe.step = "formatted" =>
      CASE IsNullish(probe.value) -> probe.literal = StrNull
        [] TypeOf(probe.value) = "boolean" ->
             probe.literal = (IF probe.value.n = 1 THEN StrTrue ELSE StrFalse)
        [] TypeOf(probe.value) = "number" ->
             /\ probe.literal = IntToStr(probe.value.n)
             /\ ReadValueLiteral(probe.literal) = [ok |-> TRUE, v |-> probe.value]
        [] TypeOf(probe.value) = "object" -> probe.literal = probe.value.s
        [] OTHER ->
             /\ Len(probe.literal) >= 2
             /\ probe.literal[1] = "\""
             /\ probe.literal[Len(probe.literal)] = "\""
             /\ \A k \in DOMAIN probe.literal : probe.literal[k] \notin {"\n", "\r", "\t"}
             /\ ReadStringLiteral(probe.literal) = [ok |-> TRUE, s |-> probe.value.s]

\* the two characters backslash and n, formatted: the backslash is doubled
FormatRoundTripWitness ==
    /\ probe.step = "formatted"
    /\ probe.value = Str(<<"\\", "n">>)
    /\ probe.literal = <<"\"", "\\", "\\", "n", "\"">>

====
